---- MODULE Spec2Model ----
(***************************************************************************)
(* A model of rlispy's tokenizer (src/src/lexer.rs) and reader             *)
(* (src/src/parser.rs).                                                    *)
(*                                                                         *)
(* Text is a sequence of characters; a character is a one-element string,  *)
(* except for the few non-ASCII or control characters that are given a     *)
(* name below.  A Token / Form is a record [kind, val].                    *)
(***************************************************************************)
EXTENDS Integers, Sequences, FiniteSets, TLC

VARIABLES
    lexer,      \* the Lexer struct (lexer.rs:19-26)
    tokens,     \* `tokens` of Lexer::lex (lexer.rs:110)
    pc,         \* where the call under way is: "scan" or "error" in Lexer::lex, "f" / "f returned" for a free function f
    prev,       \* the loop iteration of Lexer::lex that ran last: its arm, and the lexer and tokens it started from
    arg,        \* the arguments of the free function under call
    ret         \* what that function returned

vars == <<lexer, tokens, pc, prev, arg, ret>>

----------------------------------------------------------------------------
(* Bounds of the model *)

MaxSrcLen == 4      \* longest source text given to Lexer::lex
MaxTokens == 3      \* tokens pushed by Lexer::lex before the model stops following the loop
MaxAdvLen == 4      \* longest source text in the cursor model
MaxNumLen == 3      \* longest remaining text given to lex_number
MaxSymLen == 4      \* longest remaining text given to lex_symbol
MaxTokLen == 5      \* longest token sequence given to parse

----------------------------------------------------------------------------
(* Characters *)

NUL  == "U+0000"    \* '\0'
LF   == "U+000A"    \* '\n'
TAB  == "U+0009"    \* '\t'
CR   == "U+000D"    \* '\r'
SP   == " "
DQ   == "U+0022"    \* '"'
BSL  == "U+005C"    \* '\\'
SUP2 == "U+00B2"    \* superscript two: char::is_numeric, not an ASCII digit
OACU == "U+00F3"    \* o with acute accent, two bytes in UTF-8 (tests::sandbox)

Lower == {"a","b","c","d","e","f","g","h","i","j","k","l","m",
          "n","o","p","q","r","s","t","u","v","w","x","y","z"}
Upper == {"A","B","C","D","E","F","G","H","I","J","K","L","M",
          "N","O","P","Q","R","S","T","U","V","W","X","Y","Z"}
Digit == {"0","1","2","3","4","5","6","7","8","9"}

KEYWORD_CHARS   == Lower \cup Digit \cup {"-"}
SYMBOL_CHARS    == Lower \cup Upper \cup Digit \cup
                   {"_","-","+","*","/","|","<",">","=","!","?","@","#","$","%"}
ESCAPABLE_CHARS == {DQ, "n", "t", "r", BSL}
TK_END_CHARS    == {SP, LF, TAB, CR, "(", ")", "{", "}", "[", "]", DQ, ";", ","}

\* char::is_whitespace and char::is_numeric, on the characters named in this module
is_whitespace(c) == c \in {SP, LF, TAB, CR}
is_numeric(c)    == c \in Digit \cup {SUP2}

\* bytes of the UTF-8 encoding of c
len_utf8(c) == IF c \in {SUP2, OACU} THEN 2 ELSE 1

\* all texts over alphabet A of length at most n
Texts(A, n) == UNION {[1..k -> A] : k \in 0..n}

RECURSIVE ByteLen(_)
ByteLen(s) == IF s = <<>> THEN 0 ELSE len_utf8(Head(s)) + ByteLen(Tail(s))

\* byte offset of the k-th character of s (1-based), as char_indices reports it
ByteOffset(s, k) == ByteLen(SubSeq(s, 1, k - 1))

RECURSIVE Count(_, _)
Count(s, c) == IF s = <<>> THEN 0
               ELSE (IF Head(s) = c THEN 1 ELSE 0) + Count(Tail(s), c)

----------------------------------------------------------------------------
(* The cursor: Lexer::new, advance, advancen, peek *)

\* lexer.index is the number of characters the CharIndices iterator has yielded
new(source) ==
    IF source = <<>>
    THEN [source |-> source, index |-> 0, current |-> NUL, current_index |-> 0,
          current_line |-> 1, current_column |-> 1]
    ELSE [source |-> source, index |-> 1, current |-> source[1], current_index |-> 0,
          current_line |-> 1, current_column |-> 1]

\* Some(c) of self.index.next(); NoChar for None
NoChar == "None"
next_char(lx) == IF lx.index < Len(lx.source) THEN lx.source[lx.index + 1] ELSE NoChar

peek(lx) == next_char(lx)

\* the lexer after self.advance(); the call's value is next_char of the lexer before
advance(lx) ==
    IF lx.index < Len(lx.source)
    THEN LET c == lx.source[lx.index + 1] IN
         [lx EXCEPT !.index = lx.index + 1,
                    !.current = c,
                    !.current_index = ByteOffset(lx.source, lx.index + 1),
                    !.current_line = IF c = LF THEN lx.current_line + 1 ELSE lx.current_line,
                    !.current_column = IF c = LF THEN 1 ELSE lx.current_column + 1]
    ELSE lx

\* the lexer after self.advancen(n); Iterator::nth drains the iterator when it is short
advancen(lx, n) ==
    IF n = 0 THEN lx
    ELSE IF lx.index + n <= Len(lx.source)
    THEN [lx EXCEPT !.index = lx.index + n,
                    !.current = lx.source[lx.index + n],
                    !.current_index = ByteOffset(lx.source, lx.index + n),
                    !.current_column = lx.current_column + n]
    ELSE [lx EXCEPT !.index = Len(lx.source)]

\* whether self.advancen(n) returns true
advancen_returns(lx, n) == n = 0 \/ lx.index + n <= Len(lx.source)

RECURSIVE advance_times(_, _)
advance_times(lx, n) == IF n = 0 THEN lx ELSE advance_times(advance(lx), n - 1)

----------------------------------------------------------------------------
(* The cursor model: a lexer moved by advance and advancen *)

AdvAlphabet == {"a", LF, OACU}

Idle == [none |-> TRUE]

InitAdv ==
    /\ \E s \in Texts(AdvAlphabet, MaxAdvLen) : lexer = new(s)
    /\ tokens = <<>>
    /\ pc = "cursor"
    /\ prev = Idle
    /\ arg = Idle
    /\ ret = Idle

DoAdvance ==
    /\ pc = "cursor"
    /\ lexer.index < Len(lexer.source)
    /\ lexer' = advance(lexer)
    /\ UNCHANGED <<tokens, pc, prev, arg, ret>>

DoAdvancen ==
    /\ pc = "cursor"
    /\ \E n \in 0..MaxAdvLen : lexer' = advancen(lexer, n)
    /\ UNCHANGED <<tokens, pc, prev, arg, ret>>

NextAdv == DoAdvance \/ DoAdvancen

SpecAdv == InitAdv /\ [][NextAdv]_vars

----------------------------------------------------------------------------
(* The host's decimal parsers, on the texts lex_number can accumulate *)

DigitSeq == <<"0","1","2","3","4","5","6","7","8","9">>
DigitVal(c) == CHOOSE d \in 0..9 : DigitSeq[d + 1] = c

RECURSIVE DecVal(_)
DecVal(s) == IF s = <<>> THEN 0
             ELSE 10 * DecVal(SubSeq(s, 1, Len(s) - 1)) + DigitVal(s[Len(s)])

Unsigned(text) == IF text # <<>> /\ Head(text) \in {"+", "-"} THEN Tail(text) ELSE text
Negative(text) == text # <<>> /\ Head(text) = "-"

RECURSIVE Without(_, _)
Without(s, c) == IF s = <<>> THEN <<>>
                 ELSE IF Head(s) = c THEN Without(Tail(s), c)
                 ELSE <<Head(s)>> \o Without(Tail(s), c)

\* position of the first c in s, Len(s) + 1 when there is none
RECURSIVE Find(_, _)
Find(s, c) == IF s = <<>> \/ Head(s) = c THEN 1 ELSE 1 + Find(Tail(s), c)

\* str::parse::<i64>: an optional sign and one or more ASCII digits.
\* (A digit run outside the i64 range is rejected too; it needs 19 digits.)
parse_i64(text) ==
    LET body == Unsigned(text) IN
    IF body # <<>> /\ \A i \in 1..Len(body) : body[i] \in Digit
    THEN [ok |-> TRUE, val |-> IF Negative(text) THEN 0 - DecVal(body) ELSE DecVal(body)]
    ELSE [ok |-> FALSE]

\* str::parse::<f64> on texts without exponent: an optional sign, ASCII digits
\* with at most one '.', at least one digit.  The value is
\* mant / 10^scale, negated when neg.
parse_f64(text) ==
    LET body == Unsigned(text) IN
    IF /\ \A i \in 1..Len(body) : body[i] \in Digit \cup {"."}
       /\ Count(body, ".") <= 1
       /\ Len(body) > Count(body, ".")
    THEN [ok |-> TRUE,
          val |-> [neg |-> Negative(text),
                   mant |-> DecVal(Without(body, ".")),
                   scale |-> IF Count(body, ".") = 0 THEN 0 ELSE Len(body) - Find(body, ".")]]
    ELSE [ok |-> FALSE]

Token(k, v) == [kind |-> k, val |-> v]

Panic == [status |-> "panic"]
Err(m) == [status |-> "err", msg |-> m]

----------------------------------------------------------------------------
(* lex_number, lex_symbol, lex_char: the free functions over Peekable<Chars> *)

\* the characters the loop of lex_number takes from the front of source
RECURSIVE number_run(_)
number_run(source) ==
    IF source # <<>> /\ (is_numeric(Head(source)) \/ Head(source) = ".")
    THEN 1 + number_run(Tail(source))
    ELSE 0

\* Result::unwrap of a parsed number, wrapped into the token
unwrap_token(kind, r, rest) ==
    IF r.ok THEN [status |-> "ok", tk |-> Token(kind, r.val), rest |-> rest] ELSE Panic

lex_number(source, first) ==
    LET n      == number_run(source)
        number == <<first>> \o SubSeq(source, 1, n)
        rest   == SubSeq(source, n + 1, Len(source))
    IN  IF Count(number, ".") > 1 THEN Err(<<"Invalid number", number>>)
        ELSE IF Count(number, ".") > 0
             THEN unwrap_token("Float", parse_f64(number), rest)
             ELSE unwrap_token("Integer", parse_i64(number), rest)

RECURSIVE lex_symbol_loop(_, _, _)
lex_symbol_loop(source, parts, current) ==
    IF source # <<>> /\ Head(source) \in SYMBOL_CHARS
    THEN lex_symbol_loop(Tail(source), parts, Append(current, Head(source)))
    ELSE IF source # <<>> /\ Head(source) = "."
    THEN lex_symbol_loop(Tail(source), Append(parts, current), <<>>)
    ELSE IF current = <<>>
    THEN Err(<<"A symbol cannot end with a dot">>)
    ELSE LET all == Append(parts, current) IN
         [status |-> "ok",
          tk |-> Token("Symbol", [head |-> Head(all), tail |-> Tail(all)]),
          rest |-> source]

lex_symbol(source, first) == lex_symbol_loop(source, <<>>, <<first>>)

lex_char(source) ==
    LET n    == Find(source, SP) - 1
        ch   == SubSeq(source, 1, n)
        rest == SubSeq(source, n + 2, Len(source))
        ok(c) == [status |-> "ok", tk |-> Token("Char", c), rest |-> rest]
    IN  IF ch = <<"n","e","w","l","i","n","e">> THEN ok(LF)
        ELSE IF ch = <<"r","e","t","u","r","n">> THEN ok(CR)
        ELSE IF ch = <<"t","a","b">> THEN ok(TAB)
        ELSE IF ch = <<"s","p","a","c","e">> THEN ok(SP)
        ELSE IF ByteLen(ch) = 1 THEN ok(ch[1])
        ELSE Err(<<"Invalid character", ch>>)

----------------------------------------------------------------------------
(* lex_number called on a first character and a remaining text *)

NumAlphabet == {"1", "2", ".", "-", "f", SUP2}

InitNumber ==
    /\ \E s \in Texts(NumAlphabet, MaxNumLen), f \in NumAlphabet :
          arg = [source |-> s, first |-> f]
    /\ pc = "lex_number"
    /\ ret = Idle
    /\ lexer = Idle
    /\ tokens = <<>>
    /\ prev = Idle

CallLexNumber ==
    /\ pc = "lex_number"
    /\ ret' = lex_number(arg.source, arg.first)
    /\ pc' = "lex_number returned"
    /\ UNCHANGED <<lexer, tokens, prev, arg>>

NextNumber == CallLexNumber

SpecNumber == InitNumber /\ [][NextNumber]_vars

----------------------------------------------------------------------------
(* lex_symbol called on a first character and a remaining text *)

SymAlphabet == {"f", "b", ".", SP}

InitSymbol ==
    /\ \E s \in Texts(SymAlphabet, MaxSymLen), f \in SymAlphabet \cap SYMBOL_CHARS :
          arg = [source |-> s, first |-> f]
    /\ pc = "lex_symbol"
    /\ ret = Idle
    /\ lexer = Idle
    /\ tokens = <<>>
    /\ prev = Idle

CallLexSymbol ==
    /\ pc = "lex_symbol"
    /\ ret' = lex_symbol(arg.source, arg.first)
    /\ pc' = "lex_symbol returned"
    /\ UNCHANGED <<lexer, tokens, prev, arg>>

NextSymbol == CallLexSymbol

SpecSymbol == InitSymbol /\ [][NextSymbol]_vars

----------------------------------------------------------------------------
(* Lexer::lex_string, Lexer::lex_keyword and the comment arm *)

position(lx) == [line |-> lx.current_line, column |-> lx.current_column]

LexOk(lx, tk)  == [status |-> "ok", lx |-> lx, tk |-> tk]
LexErr(lx, m)  == [status |-> "err", lx |-> lx, msg |-> m]

\* the character `string.push(c)` appends for the escape `\c`
escaped(c) == c

RECURSIVE lex_string_loop(_, _)
lex_string_loop(lx, string) ==
    LET c   == next_char(lx)
        lx1 == advance(lx)
        c2  == next_char(lx1)
        lx2 == advance(lx1)
    IN  IF c = NoChar
        THEN LexErr(lx1, <<"Unexpected end of input, expected dquote at", position(lx1)>>)
        ELSE IF c = BSL
        THEN IF c2 = NoChar
             THEN LexErr(lx2, <<"Unexpected end of input, expected escape at", position(lx2)>>)
             ELSE IF c2 \in ESCAPABLE_CHARS
             THEN lex_string_loop(lx2, Append(string, escaped(c2)))
             ELSE LexErr(lx2, <<"Unexpected escape character", c2, position(lx2)>>)
        ELSE IF c = DQ
        THEN LexOk(lx2, Token("String", string))
        ELSE lex_string_loop(lx1, Append(string, c))

lex_string(lx) == lex_string_loop(lx, <<>>)

keyword_ends_anywhere(c) == c \notin KEYWORD_CHARS

\* the arm `Some(c) if TK_END_CHARS.contains(c)` of lex_keyword
keyword_ends_at(c) == c \in TK_END_CHARS

RECURSIVE lex_keyword_loop(_, _)
lex_keyword_loop(lx, keyword) ==
    LET c   == next_char(lx)
        lx1 == advance(lx)
    IN  IF c # NoChar /\ c \in KEYWORD_CHARS
        THEN lex_keyword_loop(lx1, Append(keyword, c))
        ELSE IF c # NoChar /\ keyword_ends_at(c)
        THEN IF keyword = <<>>
             THEN LexErr(lx1, <<"Empty keyword at", position(lx1)>>)
             ELSE LexOk(lx1, Token("Keyword", keyword))
        ELSE IF c # NoChar
        THEN LexErr(lx1, <<"Unexpected character while parsing the keyword", c, position(lx1), keyword>>)
        ELSE IF keyword = <<>>
             THEN LexErr(lx1, <<"Empty keyword at", position(lx1)>>)
             ELSE LexOk(lx1, Token("Keyword", keyword))

lex_keyword(lx) == lex_keyword_loop(lx, <<>>)

\* while let Some(c) = self.advance() { if c == '\n' { self.advance(); } }
RECURSIVE skip_comment(_)
skip_comment(lx) ==
    IF next_char(lx) = NoChar THEN lx
    ELSE IF next_char(lx) = LF THEN skip_comment(advance(advance(lx)))
    ELSE skip_comment(advance(lx))

----------------------------------------------------------------------------
(* Lexer::lex: one action per arm of the match, one step per loop iteration *)
(*                                                                         *)
(* The arms for characters, numbers and symbols name an iterator `chars`   *)
(* that the method does not declare.  The lexer's own character iterator   *)
(* self.index is the only one in scope and stands after the current        *)
(* character, which is where those arms peek, so `chars` is read as that   *)
(* iterator: chars(lx) is the text it still holds and `chars = rest`       *)
(* moves it.  The `c` of the last arm is read as self.current.             *)

chars(lx) == SubSeq(lx.source, lx.index + 1, Len(lx.source))

\* `chars = rest`
set_chars(lx, rest) == [lx EXCEPT !.index = Len(lx.source) - Len(rest)]

starts_number(lx) ==
    LET c == lx.current IN
    \/ (c = "-" \/ c = ".") /\ peek(lx) # NoChar /\ is_numeric(peek(lx))
    \/ is_numeric(c)

\* the arm of the match that self.current selects
arm(lx) ==
    LET c == lx.current IN
    IF is_whitespace(c) THEN "whitespace"
    ELSE IF c \in {"(", "{", "["} THEN "open"
    ELSE IF c \in {")", "}", "]"} THEN "close"
    ELSE IF c = DQ THEN "string"
    ELSE IF c = ":" THEN "keyword"
    ELSE IF c = BSL THEN "char"
    ELSE IF c = ";" THEN "comment"
    ELSE IF starts_number(lx) THEN "number"
    ELSE IF c \in SYMBOL_CHARS THEN "symbol"
    ELSE "unexpected"

LexAlphabet == {LF, "(", ")", DQ, BSL, "n", ":", ";", "1", "."}

InitLex ==
    /\ \E s \in Texts(LexAlphabet, MaxSrcLen) : lexer = new(s)
    /\ tokens = <<>>
    /\ pc = "scan"
    /\ prev = Idle
    /\ arg = Idle
    /\ ret = Idle

Scanning(a) ==
    /\ pc = "scan"
    /\ arm(lexer) = a
    /\ prev' = [arm |-> a, lexer |-> lexer, tokens |-> tokens]
    /\ UNCHANGED arg

\* tokens.push(tk), or the `?` that returns the error of a sub-scanner
Finish(r, lx) ==
    IF r.status = "ok"
    THEN /\ Len(tokens) < MaxTokens
         /\ tokens' = Append(tokens, r.tk)
         /\ lexer' = lx
         /\ UNCHANGED <<pc, ret>>
    ELSE /\ pc' = "error"
         /\ ret' = [status |-> r.status, msg |-> IF r.status = "err" THEN r.msg ELSE <<>>]
         /\ lexer' = lx
         /\ UNCHANGED tokens

SkipWhitespace ==
    /\ Scanning("whitespace")
    /\ lexer' = advance(lexer)
    /\ UNCHANGED <<tokens, pc, ret>>

PushOpen ==
    /\ Scanning("open")
    /\ Finish([status |-> "ok", tk |-> Token("Open", lexer.current)], lexer)

PushClose ==
    /\ Scanning("close")
    /\ Finish([status |-> "ok", tk |-> Token("Close", lexer.current)], lexer)

LexString ==
    /\ Scanning("string")
    /\ LET r == lex_string(lexer) IN Finish(r, r.lx)

LexKeyword ==
    /\ Scanning("keyword")
    /\ LET r == lex_keyword(lexer) IN Finish(r, r.lx)

LexChar ==
    /\ Scanning("char")
    /\ LET r == lex_char(chars(lexer)) IN
       Finish(r, IF r.status = "ok" THEN set_chars(lexer, r.rest) ELSE lexer)

SkipComment ==
    /\ Scanning("comment")
    /\ lexer' = skip_comment(lexer)
    /\ UNCHANGED <<tokens, pc, ret>>

LexNumber ==
    /\ Scanning("number")
    /\ LET r == lex_number(chars(lexer), lexer.current) IN
       Finish(r, IF r.status = "ok" THEN set_chars(lexer, r.rest) ELSE lexer)

LexSymbol ==
    /\ Scanning("symbol")
    /\ LET r == lex_symbol(chars(lexer), lexer.current) IN
       Finish(r, IF r.status = "ok" THEN set_chars(lexer, r.rest) ELSE lexer)

Unexpected ==
    /\ Scanning("unexpected")
    /\ Finish(Err(<<"Unexpected character", lexer.current>>), lexer)

NextLex ==
    \/ SkipWhitespace
    \/ PushOpen
    \/ PushClose
    \/ LexString
    \/ LexKeyword
    \/ LexChar
    \/ SkipComment
    \/ LexNumber
    \/ LexSymbol
    \/ Unexpected

SpecLex == InitLex /\ [][NextLex]_vars

----------------------------------------------------------------------------
(* parse, parse_call, parse_list, parse_map (parser.rs) *)

LiteralKinds == {"Integer", "Float", "String", "Char", "Symbol", "Keyword"}

Form(k, v) == [kind |-> k, val |-> v]

ParseOk(form, rest) == [status |-> "ok", form |-> form, rest |-> rest]

is_any_close(token, c) == token.kind = "Close"

\* the patterns Token::Close(')'), Token::Close(']') and Token::Close('}')
is_close_of(token, c) == token.kind = "Close" /\ token.val = c

\* the patterns Token::Open('('), Token::Open('[') and Token::Open('{')
is_open_of(token, c) == token.kind = "Open" /\ token.val = c

push_front(forms, form) == <<form>> \o forms

\* forms.push(form)
push(forms, form) == Append(forms, form)

RECURSIVE parse(_), parse_call(_, _), parse_list(_, _), parse_map(_, _)

parse(tks) ==
    IF tks = <<>> THEN Err(<<"Unexpected end of input">>)
    ELSE LET token == Head(tks) IN
         IF is_open_of(token, "(") THEN parse_call(Tail(tks), <<>>)
         ELSE IF is_open_of(token, "[") THEN parse_list(Tail(tks), <<>>)
         ELSE IF is_open_of(token, "{") THEN parse_map(Tail(tks), <<>>)
         ELSE IF token.kind \in LiteralKinds
         THEN ParseOk(Form(token.kind, token.val), Tail(tks))
         ELSE Err(<<"Unexpected token", token>>)

parse_call(tks, forms) ==
    IF tks = <<>> THEN Err(<<"Unexpected end of input">>)
    ELSE IF is_close_of(Head(tks), ")") THEN ParseOk(Form("Call", forms), Tail(tks))
    ELSE IF Head(tks).kind = "Close"
    THEN Err(<<"Unexpected token, expected", Head(tks).val, ")">>)
    ELSE LET r == parse(tks) IN
         IF r.status # "ok" THEN r ELSE parse_call(r.rest, push(forms, r.form))

parse_list(tks, forms) ==
    IF tks = <<>> THEN Err(<<"Unexpected end of input">>)
    ELSE IF is_close_of(Head(tks), "]") THEN ParseOk(Form("List", forms), Tail(tks))
    ELSE IF Head(tks).kind = "Close"
    THEN Err(<<"Unexpected token, expected", Head(tks).val, "]">>)
    ELSE LET r == parse(tks) IN
         IF r.status # "ok" THEN r ELSE parse_list(r.rest, push(forms, r.form))

parse_map(tks, forms) ==
    IF tks = <<>> THEN Err(<<"Unexpected end of input">>)
    ELSE IF is_close_of(Head(tks), "}") THEN ParseOk(Form("Map", forms), Tail(tks))
    ELSE IF Head(tks).kind = "Close"
    THEN Err(<<"Unexpected token, expected", Head(tks).val, "}">>)
    ELSE LET k == parse(tks) IN
         IF k.status # "ok" THEN k
         ELSE LET v == parse(k.rest) IN
              IF v.status # "ok" THEN v
              ELSE parse_map(v.rest, push(forms, <<k.form, v.form>>))

----------------------------------------------------------------------------
(* parse called on a token sequence *)

\* the tokens the sequences are drawn from
TokAlphabet ==
    <<Token("Open", "("), Token("Open", "["), Token("Open", "{"),
      Token("Close", ")"), Token("Close", "]"), Token("Close", "}"),
      Token("Integer", 1), Token("Keyword", <<"a">>)>>

InitParse ==
    /\ \E t \in Texts(DOMAIN TokAlphabet, MaxTokLen) :
          arg = [i \in DOMAIN t |-> TokAlphabet[t[i]]]
    /\ pc = "parse"
    /\ ret = Idle
    /\ lexer = Idle
    /\ tokens = <<>>
    /\ prev = Idle

CallParse ==
    /\ pc = "parse"
    /\ ret' = parse(arg)
    /\ pc' = "parse returned"
    /\ UNCHANGED <<lexer, tokens, prev, arg>>

NextParse == CallParse

SpecParse == InitParse /\ [][NextParse]_vars

----------------------------------------------------------------------------
(* Properties of the tokenizer's scan loop (SpecLex) *)

Brackets == {"(", ")", "{", "}", "[", "]"}

RECURSIVE CountIn(_, _)
CountIn(s, S) == IF s = <<>> THEN 0
                 ELSE (IF Head(s) \in S THEN 1 ELSE 0) + CountIn(Tail(s), S)

BracketTokens == Cardinality({i \in DOMAIN tokens : tokens[i].kind \in {"Open", "Close"}})

LastToken == tokens[Len(tokens)]

\* C1: the scan emits exactly one Open/Close token per bracket character: at
\* no point does the token list hold more bracket tokens than there are
\* bracket characters among the characters the cursor has reached.
C1_OneTokenPerBracket ==
    pc \in {"scan", "error"} =>
        BracketTokens <= CountIn(SubSeq(lexer.source, 1, lexer.index), Brackets)

\* the character an escape names
Named(c) == IF c = "n" THEN LF ELSE IF c = "t" THEN TAB ELSE IF c = "r" THEN CR ELSE c

\* the text of the string literal whose body starts s, or failure
RECURSIVE StringValue(_)
StringValue(s) ==
    IF s = <<>> THEN [ok |-> FALSE]
    ELSE IF Head(s) = DQ THEN [ok |-> TRUE, text |-> <<>>]
    ELSE IF Head(s) = BSL
    THEN IF Len(s) < 2 \/ s[2] \notin {"n", "t", "r", DQ, BSL} THEN [ok |-> FALSE]
         ELSE LET v == StringValue(SubSeq(s, 3, Len(s))) IN
              IF v.ok THEN [ok |-> TRUE, text |-> <<Named(s[2])>> \o v.text] ELSE v
    ELSE LET v == StringValue(Tail(s)) IN
         IF v.ok THEN [ok |-> TRUE, text |-> <<Head(s)>> \o v.text] ELSE v

\* C2: a string literal yields a String token whose text has every escape
\* resolved to the character it names (newline for \n, tab for \t, carriage
\* return for \r, the quote and the backslash for themselves); an escape of
\* any other character, or input that ends before the closing quote, is a
\* lexical error.
C2_EscapesResolved ==
    (pc \in {"scan", "error"} /\ prev # Idle /\ prev.arm = "string") =>
        LET v == StringValue(chars(prev.lexer)) IN
        IF v.ok
        THEN pc = "scan" /\ LastToken.kind = "String" /\ LastToken.val = v.text
        ELSE pc = "error"

\* C4: a comment discards the characters up to and including the next
\* newline, or up to the end of input, and produces no token: the scan
\* resumes at the first character after that newline.
C4_CommentEndsAtNewline ==
    (pc = "scan" /\ prev # Idle /\ prev.arm = "comment") =>
        LET rest == chars(prev.lexer)
            k    == Find(rest, LF)
        IN  /\ tokens = prev.tokens
            /\ IF k < Len(rest)
               THEN /\ lexer.index = prev.lexer.index + k + 1
                    /\ lexer.current = rest[k + 1]
               ELSE lexer.index = Len(lexer.source)

\* the maximal run of keyword characters at the front of s
RECURSIVE KeywordRun(_)
KeywordRun(s) == IF s # <<>> /\ Head(s) \in KEYWORD_CHARS
                 THEN <<Head(s)>> \o KeywordRun(Tail(s))
                 ELSE <<>>

\* the character after the keyword run that follows the ':' of the last iteration
KeywordEnder ==
    LET rest == chars(prev.lexer)
        n    == Len(KeywordRun(rest))
    IN  IF n < Len(rest) THEN rest[n + 1] ELSE NoChar

KeywordScanned ==
    /\ pc \in {"scan", "error"}
    /\ prev # Idle
    /\ prev.arm = "keyword"
    /\ KeywordRun(chars(prev.lexer)) # <<>>

\* the scan yielded Keyword(run) and stands on the character that ended the run
KeywordYielded ==
    LET run == KeywordRun(chars(prev.lexer)) IN
    /\ pc = "scan"
    /\ tokens = Append(prev.tokens, Token("Keyword", run))
    /\ IF KeywordEnder = NoChar
       THEN lexer.index = Len(lexer.source)
       ELSE /\ lexer.index = prev.lexer.index + Len(run) + 1
            /\ lexer.current = KeywordEnder

\* C6 as stated: a keyword scan with at least one keyword character ends at
\* the first character outside the keyword alphabet, whichever it is, or at
\* end of input, yields the Keyword of the run, and leaves the ending
\* character to be scanned next.
C6_EndsAtAnyCharacter == KeywordScanned => KeywordYielded

\* C6 amended: the keyword scan yields the Keyword of the run, leaving the
\* ending character to be scanned next, when the run is followed by one of
\* the token-end characters or by end of input; a run followed by any other
\* character is a lexical error and no token is pushed.
C6_EndsAtTokenEnd ==
    KeywordScanned =>
        IF KeywordEnder \in TK_END_CHARS \cup {NoChar}
        THEN KeywordYielded
        ELSE pc = "error" /\ tokens = prev.tokens

C6_Witness ==
    /\ KeywordScanned
    /\ KeywordEnder \in TK_END_CHARS
    /\ pc = "scan"
    /\ LastToken.kind = "Keyword"
    /\ lexer.current = KeywordEnder

----------------------------------------------------------------------------
(* Properties of lex_symbol (SpecSymbol) and lex_number (SpecNumber) *)

\* C3: every Symbol the symbol scanner returns has a non-empty head and no
\* empty segment in its tail; a path with a trailing or a doubled '.' is
\* never returned as a Symbol.
C3_NoEmptySegment ==
    (pc = "lex_symbol returned" /\ ret.status = "ok") =>
        /\ ret.tk.val.head # <<>>
        /\ \A i \in DOMAIN ret.tk.val.tail : ret.tk.val.tail[i] # <<>>

NumberReturned == pc = "lex_number returned"

\* C5: numeric scanning never panics: for every first character and every
\* remaining text the number scanner returns a token or a lexical error.
C5_NumberNeverPanics ==
    NumberReturned => ret.status \in {"ok", "err"}

\* the maximal prefix of s made of digits (numeric characters) and '.'
RECURSIVE DigitDotRun(_)
DigitDotRun(s) == IF s # <<>> /\ (is_numeric(Head(s)) \/ Head(s) = ".")
                  THEN <<Head(s)>> \o DigitDotRun(Tail(s))
                  ELSE <<>>

\* C9: the number scanner consumes the maximal prefix of digits and '.' and
\* returns the rest unchanged; more than one '.' in the accumulated text is
\* a lexical error, exactly one makes a Float, none makes an Integer holding
\* the decimal value of the accumulated text, negative after a first '-'.
C9_NumberScan ==
    NumberReturned =>
        LET run  == DigitDotRun(arg.source)
            acc  == <<arg.first>> \o run
            rest == SubSeq(arg.source, Len(run) + 1, Len(arg.source))
            dots == Count(acc, ".")
        IN  IF dots > 1 THEN ret.status = "err"
            ELSE /\ ret.status = "ok"
                 /\ ret.rest = rest
                 /\ IF dots = 1 THEN ret.tk.kind = "Float"
                    ELSE /\ ret.tk.kind = "Integer"
                         /\ (arg.first = "-") => ret.tk.val = 0 - DecVal(run)
                         /\ (arg.first \in Digit) => ret.tk.val = DecVal(acc)

----------------------------------------------------------------------------
(* Properties of the cursor (SpecAdv) *)

\* C10: for every n >= 1 with at least n characters left after the current
\* one, advancen(n) leaves the lexer as n calls of advance() do (current
\* character, index, line and column), newlines included; a fresh lexer is
\* at line 1, column 1.
C10_AdvancenIsRepeatedAdvance ==
    pc = "cursor" =>
        /\ \A n \in 1..MaxAdvLen :
              lexer.index + n <= Len(lexer.source) =>
                  advancen(lexer, n) = advance_times(lexer, n)
        /\ position(new(lexer.source)) = [line |-> 1, column |-> 1]

----------------------------------------------------------------------------
(* Properties of the reader (SpecParse) *)

SameToken(a, b) == a.kind = b.kind /\ a.val = b.val
SameTokens(s, t) == Len(s) = Len(t) /\ \A i \in DOMAIN s : SameToken(s[i], t[i])

OpenOf(kind)  == IF kind = "Call" THEN "(" ELSE IF kind = "List" THEN "[" ELSE "{"
CloseOf(kind) == IF kind = "Call" THEN ")" ELSE IF kind = "List" THEN "]" ELSE "}"

\* the tokens a form is written with
RECURSIVE Flatten(_), FlattenAll(_), FlattenPairs(_)
Flatten(form) ==
    IF form.kind \in {"Call", "List"}
    THEN <<Token("Open", OpenOf(form.kind))>> \o FlattenAll(form.val)
            \o <<Token("Close", CloseOf(form.kind))>>
    ELSE IF form.kind = "Map"
    THEN <<Token("Open", "{")>> \o FlattenPairs(form.val) \o <<Token("Close", "}")>>
    ELSE <<Token(form.kind, form.val)>>
FlattenAll(forms) ==
    IF forms = <<>> THEN <<>> ELSE Flatten(Head(forms)) \o FlattenAll(Tail(forms))
FlattenPairs(pairs) ==
    IF pairs = <<>> THEN <<>>
    ELSE Flatten(Head(pairs)[1]) \o Flatten(Head(pairs)[2]) \o FlattenPairs(Tail(pairs))

ParseReturned == pc = "parse returned"

Toggle(stack) ==
    IF stack = <<>> THEN stack
    ELSE LET top == stack[Len(stack)]
             below == SubSeq(stack, 1, Len(stack) - 1)
         IN  IF top = "key" THEN Append(below, "value")
             ELSE IF top = "value" THEN Append(below, "key")
             ELSE stack

Closer(state) == IF state = "call" THEN ")" ELSE IF state = "list" THEN "]" ELSE "}"
Opened(c)     == IF c = "(" THEN "call" ELSE IF c = "[" THEN "list" ELSE "key"

RECURSIVE Outcome(_, _)
Outcome(toks, stack) ==
    IF toks = <<>> THEN "eoi"
    ELSE LET t     == Head(toks)
             top   == IF stack = <<>> THEN "form" ELSE stack[Len(stack)]
             below == SubSeq(stack, 1, Len(stack) - 1)
         IN  IF t.kind = "Close"
             THEN IF top \in {"form", "value"} THEN "unexpected"
                  ELSE IF t.val # Closer(top) THEN "mismatch"
                  ELSE IF below = <<>> THEN "ok"
                  ELSE Outcome(Tail(toks), Toggle(below))
             ELSE IF t.kind = "Open"
             THEN Outcome(Tail(toks), Append(stack, Opened(t.val)))
             ELSE IF stack = <<>> THEN "ok"
             ELSE Outcome(Tail(toks), Toggle(stack))

ErrorKind(r) ==
    IF r.msg[1] = "Unexpected end of input" THEN "eoi"
    ELSE IF r.msg[1] = "Unexpected token, expected" THEN "mismatch"
    ELSE "unexpected"

\* C8: parse returns an error and no form when the first form is malformed,
\* of the kind of the first fault: end of input when the tokens run out at
\* top level or inside an open call, list or map; mismatched bracket when a
\* container that awaits a child or its closer meets another Close;
\* unexpected token when a Close stands where a fresh form is read, as for
\* the missing value of a map with an odd number of entries.
C8_ErrorKinds ==
    (ParseReturned /\ Outcome(arg, <<>>) # "ok") =>
        /\ ret.status = "err"
        /\ "form" \notin DOMAIN ret
        /\ ErrorKind(ret) = Outcome(arg, <<>>)

C8_Witness ==
    /\ ParseReturned
    /\ ret.status = "err"
    /\ Len(arg) = 3
    /\ is_open_of(arg[1], "{") /\ arg[2].kind = "Keyword" /\ is_close_of(arg[3], "}")
    /\ ErrorKind(ret) = "unexpected"

====
